---- MODULE Spec2Model ----
(***************************************************************************)
(* Model of veridex's HiddenApiFinder                                      *)
(* (tools/veridex/hidden_api_finder.cc): the instruction scanner           *)
(* CollectAccesses, the aggregation members of the finder and the report   *)
(* generator Dump / DumpReferences.                                        *)
(*                                                                         *)
(* Strings are sequences of one-character strings, so that concatenation,  *)
(* the dotted -> internal conversion, the search for ' ' and the           *)
(* lexicographic order of std::string are computed, not assumed.           *)
(***************************************************************************)
EXTENDS Integers, Sequences, FiniteSets, TLC

VARIABLES
    pc,                     \* position of the caller / of the scanner loops
    dex_file,               \* resolver->GetDexFile() of the unit being scanned
    method,                 \* method.GetReference() of the method being scanned
    max_pc,                 \* codes.InsnsSizeInCodeUnits() of that method
    dex_pc,                 \* inst.DexPc() of the next instruction of the stream
    method_locations_,      \* std::map<std::string, std::vector<MethodReference>>
    field_locations_,       \* std::map<std::string, std::vector<MethodReference>>
    classes_,               \* std::set<std::string>
    strings_,               \* std::set<std::string>
    reflection_locations_,  \* std::map<std::string, std::vector<MethodReference>>
    stats,                  \* the caller's HiddenApiStats object
    os                      \* one record per Dump call: what it wrote to the stream

finder == <<method_locations_, field_locations_, classes_, strings_,
            reflection_locations_>>
scanner == <<dex_file, method, max_pc, dex_pc>>
vars == <<pc, dex_file, method, max_pc, dex_pc, method_locations_,
          field_locations_, classes_, strings_, reflection_locations_, stats, os>>

-----------------------------------------------------------------------------
(* Bounds of the model. *)

\* Total number of call sites recorded in the three location maps.
MaxRefs == 3
\* Largest InsnsSizeInCodeUnits of a scanned method.
MaxPc == 3
\* Number of Dump calls recorded.
MaxDumps == 2

-----------------------------------------------------------------------------
(* Strings. *)

\* The characters in use, in ascending order of their byte value.
Ascii == <<"\t", " ", "(", ")", "-", ".", "/", ":", ";", ">",
           "I", "L", "V", "a", "b", "c", "f", "g", "k", "m", "x">>

Ord == [c \in {Ascii[i] : i \in 1..Len(Ascii)} |->
           CHOOSE i \in 1..Len(Ascii) : Ascii[i] = c]

\* std::string operator<, the order of std::map<std::string, ...> and
\* std::set<std::string>: lexicographic on bytes, a proper prefix first.
RECURSIVE StrLess(_, _)
StrLess(a, b) ==
    IF b = <<>> THEN FALSE
    ELSE IF a = <<>> THEN TRUE
    ELSE IF Head(a) = Head(b) THEN StrLess(Tail(a), Tail(b))
    ELSE Ord[Head(a)] < Ord[Head(b)]

\* Iteration order of a std::map / std::set with std::string keys.
RECURSIVE SortedKeys(_)
SortedKeys(S) ==
    IF S = {} THEN <<>>
    ELSE LET m == CHOOSE x \in S : \A y \in S : x = y \/ StrLess(x, y)
         IN <<m>> \o SortedKeys(S \ {m})

\* Mutant of ContainsSpace: the cheap filter on the literal is missing.
ContainsSpace_Never(name) == FALSE

\* name.find(' ') != std::string::npos
ContainsSpace(name) == \E i \in 1..Len(name) : name[i] = " "

\* HiddenApi::ToInternalName: std::replace '.' by '/', then "L" + val + ";".
ToInternalName(str) ==
    <<"L">> \o [i \in 1..Len(str) |-> IF str[i] = "." THEN "/" ELSE str[i]] \o <<";">>

kArrow == <<"-", ">">>

\* ART_FORMAT("{}->{}", cls, name)
FullName(cls, name) == cls \o kArrow \o name

-----------------------------------------------------------------------------
(* The compiled units handed to the finder: the bytecode-unit reader and   *)
(* the per-unit resolver.                                                  *)

Lab == <<"L", "a", "/", "b", ";">>
Lc == <<"L", "c", ";">>

DexFiles == {1, 2}

\* dex_file.GetTypeDescriptorView(dex::TypeIndex(i)), i < NumTypeIds()
TypeIds(d) == <<Lab>>

\* dex_file.GetStringView(string_index)
StringIds == <<
    <<"a", ".", "b">>,
    Lc,
    <<"f">>,
    <<"f", " ", "g">>,
    <<"f", "\t", "g">> >>

GetStringView(string_index) == StringIds[string_index + 1]

\* HiddenApi::GetApiMethodName(dex_file, method_id): class->name+signature
MethodIds == <<
    FullName(Lab, <<"m", "(", ")", "V">>),
    FullName(Lab, <<"k", "(", ")", "V">>),
    FullName(Lc, <<"x", "(", ")", "V">>),
    FullName(Lc, <<"m", "(", ")", "V">>) >>

GetApiMethodName(method_id) == MethodIds[method_id + 1]

\* HiddenApi::GetApiFieldName(dex_file, field_id): class->name:type
FieldIds == <<
    FullName(Lc, <<"f", ":", "I">>),
    FullName(Lab, <<"g", ":", "I">>) >>

GetApiFieldName(field_id) == FieldIds[field_id + 1]

\* dex_file.GetClasses() with accessor.GetMethods(): the classes a unit
\* defines, each with the indices of its methods.
GetClasses(d) ==
    IF d = 1 THEN {[descriptor |-> Lab, methods |-> {0, 1}]}
    ELSE {[descriptor |-> Lab, methods |-> {0}],
          [descriptor |-> Lc, methods |-> {2, 3}]}

\* method.GetInstructions().InsnsSizeInCodeUnits() of the method with the
\* reference ref.
InsnsSizeInCodeUnits(ref) ==
    IF ref.dex_file = 1 THEN MaxPc - ref.index ELSE 1

\* class_filter.Matches(accessor.GetDescriptor()): the application's classes.
Matches(descriptor) == descriptor = Lab

\* HiddenApi::GetApiMethodName(ref): the textual form of a call site.  The
\* same class may be defined by two units, whose references then print alike.
RefString(ref) == GetApiMethodName(ref.index)

-----------------------------------------------------------------------------
(* Instructions. *)

InvokeOps == {"INVOKE_DIRECT", "INVOKE_INTERFACE", "INVOKE_STATIC",
              "INVOKE_SUPER", "INVOKE_VIRTUAL"}
InvokeRangeOps == {"INVOKE_DIRECT_RANGE", "INVOKE_INTERFACE_RANGE",
                   "INVOKE_STATIC_RANGE", "INVOKE_SUPER_RANGE",
                   "INVOKE_VIRTUAL_RANGE"}
IGetOps == {"IGET", "IGET_WIDE", "IGET_OBJECT", "IGET_BOOLEAN", "IGET_BYTE",
            "IGET_CHAR", "IGET_SHORT"}
IPutOps == {"IPUT", "IPUT_WIDE", "IPUT_OBJECT", "IPUT_BOOLEAN", "IPUT_BYTE",
            "IPUT_CHAR", "IPUT_SHORT"}
SGetOps == {"SGET", "SGET_WIDE", "SGET_OBJECT", "SGET_BOOLEAN", "SGET_BYTE",
            "SGET_CHAR", "SGET_SHORT"}
SPutOps == {"SPUT", "SPUT_WIDE", "SPUT_OBJECT", "SPUT_BOOLEAN", "SPUT_BYTE",
            "SPUT_CHAR", "SPUT_SHORT"}

\* The case labels of the switch that call CheckMethod / CheckField.
MethodOps == InvokeOps \cup InvokeRangeOps
FieldOps == IGetOps \cup IPutOps \cup SGetOps \cup SPutOps

\* The load-literal-string opcodes of the instruction set.
StringLoadOps == {"CONST_STRING", "CONST_STRING_JUMBO"}

\* The opcodes the instruction stream provider yields in this model.
Opcodes == {"NOP", "CONST_STRING", "CONST_STRING_JUMBO",
            "INVOKE_VIRTUAL", "INVOKE_STATIC_RANGE",
            "IGET", "IPUT_OBJECT", "SGET_WIDE", "SPUT_BOOLEAN"}

\* The index operand an instruction of each kind may carry.
Operands(opcode) ==
    IF opcode \in StringLoadOps THEN 0..(Len(StringIds) - 1)
    ELSE IF opcode \in MethodOps THEN {0, 2, 3}
    ELSE IF opcode \in FieldOps THEN 0..(Len(FieldIds) - 1)
    ELSE {0}

\* Size of an instruction in code units, from its format (10x, 21c, 22c,
\* 31c, 35c, 3rc): the step of the program counter.
SizeInCodeUnits(opcode) ==
    IF opcode = "NOP" THEN 1
    ELSE IF opcode = "CONST_STRING" \/ opcode \in SGetOps \cup SPutOps
                \/ opcode \in IGetOps \cup IPutOps THEN 2
    ELSE 3

NoMethod == [dex_file |-> 0, index |-> 0]

-----------------------------------------------------------------------------
(* The hidden API classifier the finder holds a reference to. *)

ApiLists == {"blocked", "unsupported", "max-target-o"}
Sources == {"UNKNOWN", "BOOT", "APP"}

hidden_api_ == [
    \* names the flags list knows as restricted
    boot |-> {Lab, Lc, <<"a", ".", "b">>,
              GetApiMethodName(0), GetApiMethodName(2), GetApiMethodName(3),
              GetApiFieldName(0),
              FullName(Lab, <<"f">>), FullName(Lab, <<"f", "\t", "g">>),
              FullName(Lc, <<"f", "\t", "g">>)},
    \* names defined by the application itself
    app |-> {GetApiMethodName(0), FullName(Lab, <<"f">>)},
    \* names defined by the platform
    platform |-> {GetApiMethodName(2), GetApiMethodName(3), GetApiFieldName(0),
                  FullName(Lab, <<"f", "\t", "g">>),
                  FullName(Lc, <<"f", "\t", "g">>)},
    \* names the api-list filter lets through
    report |-> {GetApiMethodName(0), GetApiMethodName(2), GetApiMethodName(3),
                GetApiFieldName(0), GetApiFieldName(1),
                FullName(Lab, <<"f">>), FullName(Lab, <<"f", "\t", "g">>),
                FullName(Lc, <<"f">>)},
    blocked |-> {GetApiMethodName(2), GetApiFieldName(0),
                 FullName(Lab, <<"f", "\t", "g">>)},
    unsupported |-> {GetApiMethodName(3), GetApiFieldName(1),
                     FullName(Lc, <<"f">>)} ]

\* hidden_api_.IsInBoot(name)
IsInBoot(name) == name \in hidden_api_.boot

\* hidden_api_.GetSignatureSource(name)
GetSignatureSource(name) ==
    IF name \in hidden_api_.app THEN "APP"
    ELSE IF name \in hidden_api_.platform THEN "BOOT"
    ELSE "UNKNOWN"

\* hidden_api_.ShouldReport(name)
ShouldReport(name) == name \in hidden_api_.report

\* hidden_api_.GetApiList(name)
GetApiList(name) ==
    IF name \in hidden_api_.blocked THEN "blocked"
    ELSE IF name \in hidden_api_.unsupported THEN "unsupported"
    ELSE "max-target-o"

-----------------------------------------------------------------------------
(* The scanner: HiddenApiFinder::CollectAccesses. *)

EmptyMap == [k \in {} |-> <<>>]

\* std::map::operator[]: the value at key k, default-constructed when absent
MapAt(m, k) == IF k \in DOMAIN m THEN m[k] ELSE <<>>

\* Mutant of MapTouch: the lookup takes the entry out of the map.
MapTouch_Erase(m, k) == [x \in DOMAIN m \ {k} |-> m[x]]

\* std::map::operator[]: the map after the lookup, which inserts an absent key
MapTouch(m, k) == [x \in DOMAIN m \cup {k} |-> MapAt(m, x)]

\* m[name].push_back(ref)
PushBack(m, name, ref) ==
    [x \in DOMAIN m \cup {name} |->
        IF x = name THEN Append(MapAt(m, name), ref) ELSE m[x]]

\* Number of call sites the three location maps hold.
RECURSIVE SumLen(_, _)
SumLen(m, keys) ==
    IF keys = {} THEN 0
    ELSE LET k == CHOOSE x \in keys : TRUE
         IN Len(m[k]) + SumLen(m, keys \ {k})

TotalRefs ==
    SumLen(method_locations_, DOMAIN method_locations_)
    + SumLen(field_locations_, DOMAIN field_locations_)
    + SumLen(reflection_locations_, DOMAIN reflection_locations_)

\* CheckMethod(method_id, resolver, ref)
CheckMethod(method_id, ref) ==
    PushBack(method_locations_, GetApiMethodName(method_id), ref)

\* CheckField(field_id, resolver, ref)
CheckField(field_id, ref) ==
    PushBack(field_locations_, GetApiFieldName(field_id), ref)

\* Mutant of ConstString: the raw literal is looked up before its internal
\* form.
ConstString_RawFirst(name, ref) ==
    IF ContainsSpace(name) THEN
        [classes |-> classes_, strings |-> strings_,
         locations |-> reflection_locations_]
    ELSE LET str == ToInternalName(name) IN
        IF IsInBoot(name) THEN
            [classes |-> classes_ \cup {name}, strings |-> strings_,
             locations |-> reflection_locations_]
        ELSE IF IsInBoot(str) THEN
            [classes |-> classes_ \cup {str}, strings |-> strings_,
             locations |-> reflection_locations_]
        ELSE
            [classes |-> classes_, strings |-> strings_ \cup {name},
             locations |-> PushBack(reflection_locations_, name, ref)]

\* Mutant of ConstString: the literal is kept without its call site.
ConstString_NoLocation(name, ref) ==
    IF ContainsSpace(name) THEN
        [classes |-> classes_, strings |-> strings_,
         locations |-> reflection_locations_]
    ELSE LET str == ToInternalName(name) IN
        IF IsInBoot(str) THEN
            [classes |-> classes_ \cup {str}, strings |-> strings_,
             locations |-> reflection_locations_]
        ELSE IF IsInBoot(name) THEN
            [classes |-> classes_ \cup {name}, strings |-> strings_,
             locations |-> reflection_locations_]
        ELSE
            [classes |-> classes_, strings |-> strings_ \cup {name},
             locations |-> reflection_locations_]

\* case Instruction::CONST_STRING: the members after the case ran on the
\* string `name` loaded in the method `ref`.
ConstString(name, ref) ==
    IF ContainsSpace(name) THEN
        [classes |-> classes_, strings |-> strings_,
         locations |-> reflection_locations_]
    ELSE LET str == ToInternalName(name) IN
        IF IsInBoot(str) THEN
            [classes |-> classes_ \cup {str}, strings |-> strings_,
             locations |-> reflection_locations_]
        ELSE IF IsInBoot(name) THEN
            [classes |-> classes_ \cup {name}, strings |-> strings_,
             locations |-> reflection_locations_]
        ELSE
            [classes |-> classes_, strings |-> strings_ \cup {name},
             locations |-> PushBack(reflection_locations_, name, ref)]

\* if (inst.DexPc() >= max_pc) break;
OutsideCode(insn_pc, bound) == insn_pc >= bound

\* Run's loop calls CollectAccesses on the next resolver, which first inserts
\* every type descriptor of the unit into classes_.
CollectAccessesBegin(d) ==
    /\ pc = "Run"
    /\ classes_' = classes_ \cup {TypeIds(d)[i] : i \in 1..Len(TypeIds(d))}
    /\ dex_file' = d
    /\ pc' = "CollectAccesses"
    /\ UNCHANGED <<method, max_pc, dex_pc, method_locations_,
                   field_locations_, strings_, reflection_locations_, stats, os>>

\* The class and method loops reach a method of a class the filter matches.
BeginMethod(accessor, m) ==
    /\ pc = "CollectAccesses"
    /\ accessor \in GetClasses(dex_file)
    /\ Matches(accessor.descriptor)
    /\ m \in accessor.methods
    /\ method' = [dex_file |-> dex_file, index |-> m]
    /\ max_pc' = InsnsSizeInCodeUnits([dex_file |-> dex_file, index |-> m])
    /\ dex_pc' = 0
    /\ pc' = "Instructions"
    /\ UNCHANGED <<dex_file, finder, stats, os>>

\* One iteration of the instruction loop on the instruction the stream
\* yields at dex_pc; the break leaves the loop for the next method.
NextInstruction(opcode, index) ==
    /\ pc = "Instructions"
    /\ TotalRefs < MaxRefs
    /\ IF OutsideCode(dex_pc, max_pc) THEN
          /\ pc' = "CollectAccesses"
          /\ method' = NoMethod
          /\ max_pc' = 0
          /\ dex_pc' = 0
          /\ UNCHANGED finder
       ELSE
          /\ pc' = pc
          /\ dex_pc' = dex_pc + SizeInCodeUnits(opcode)
          /\ UNCHANGED <<method, max_pc>>
          /\ IF opcode = "CONST_STRING" THEN
                LET r == ConstString(GetStringView(index), method) IN
                /\ classes_' = r.classes
                /\ strings_' = r.strings
                /\ reflection_locations_' = r.locations
                /\ UNCHANGED <<method_locations_, field_locations_>>
             ELSE IF opcode \in MethodOps THEN
                /\ method_locations_' = CheckMethod(index, method)
                /\ UNCHANGED <<field_locations_, classes_, strings_,
                               reflection_locations_>>
             ELSE IF opcode \in FieldOps THEN
                /\ field_locations_' = CheckField(index, method)
                /\ UNCHANGED <<method_locations_, classes_, strings_,
                               reflection_locations_>>
             ELSE UNCHANGED finder
    /\ UNCHANGED <<dex_file, stats, os>>

\* The instruction stream of the method is exhausted.
EndMethod ==
    /\ pc = "Instructions"
    /\ pc' = "CollectAccesses"
    /\ method' = NoMethod
    /\ max_pc' = 0
    /\ dex_pc' = 0
    /\ UNCHANGED <<dex_file, finder, stats, os>>

\* The class loop is exhausted: CollectAccesses returns to Run's loop.
CollectAccessesEnd ==
    /\ pc = "CollectAccesses"
    /\ pc' = "Run"
    /\ dex_file' = 0
    /\ method' = NoMethod
    /\ max_pc' = 0
    /\ dex_pc' = 0
    /\ UNCHANGED <<finder, stats, os>>

\* HiddenApiFinder::Run returns: every resolver was scanned.
RunReturn ==
    /\ pc = "Run"
    /\ pc' = "Done"
    /\ UNCHANGED <<scanner, finder, stats, os>>

-----------------------------------------------------------------------------
(* The report generator: HiddenApiFinder::Dump and DumpReferences. *)

\* HiddenApiStats as its constructor leaves it.
ZeroStats ==
    [count |-> 0, linking_count |-> 0, reflection_count |-> 0,
     api_counts |-> [l \in ApiLists |-> 0]]

\* The lines of the report.  A header line is
\*   "#<seq>: <what> <api_list> <name> use(s):"   (what = "Linking"), or
\*   "#<seq>: <what> <api_list> <name> potential use(s):"  ("Reflection");
\* a location line is kPrefix, the reference and, when occurrences > 1,
\* " (<occurrences> occurrences)"; occurrences = 0 stands for no suffix.
HeaderLine(seq, what, api_list, name) ==
    [kind |-> "header", seq |-> seq, what |-> what, api_list |-> api_list,
     name |-> name, occurrences |-> 0]

\* Mutant of ReferenceLine: the occurrence suffix is written for n = 1 too.
ReferenceLine_AlwaysCount(ref_string, n) ==
    [kind |-> "reference", seq |-> 0, what |-> "", api_list |-> "",
     name |-> ref_string, occurrences |-> n]

ReferenceLine(ref_string, n) ==
    [kind |-> "reference", seq |-> 0, what |-> "", api_list |-> "",
     name |-> ref_string, occurrences |-> IF n > 1 THEN n ELSE 0]

EmptyLine ==
    [kind |-> "empty", seq |-> 0, what |-> "", api_list |-> "",
     name |-> <<>>, occurrences |-> 0]

\* The first loop of DumpReferences: counts[ref_string]++ over the references.
RECURSIVE CountReferences(_, _)
CountReferences(references, counts) ==
    IF references = <<>> THEN counts
    ELSE LET ref_string == RefString(Head(references))
             zeroed == IF ref_string \in DOMAIN counts THEN counts
                       ELSE [x \in DOMAIN counts \cup {ref_string} |->
                                IF x = ref_string THEN 0 ELSE counts[x]]
         IN CountReferences(Tail(references),
                            [zeroed EXCEPT ![ref_string] = @ + 1])

\* The second loop of DumpReferences: one line per key of counts, in the
\* order of the std::map.
DumpReferences(references) ==
    LET counts == CountReferences(references, [k \in {} |-> 0])
        keys == SortedKeys(DOMAIN counts)
    IN [i \in 1..Len(keys) |-> ReferenceLine(keys[i], counts[keys[i]])]

\* Mutant of Reported: the attribution source is not asked.
Reported_IgnoresSource(name) == ShouldReport(name)

\* The condition under which an entry is reported.
Reported(name) == GetSignatureSource(name) # "APP" /\ ShouldReport(name)

\* Mutant of CountFinding: the reflection pass counts into linking_count,
\* as the two passes it was copied from do.
CountFinding_AlwaysLinking(st, what, api_list) ==
    [st EXCEPT !.linking_count = @ + 1,
               !.api_counts[api_list] = @ + 1,
               !.count = @ + 1]

\* The statistics after one finding of the given kind and list was counted.
CountFinding(st, what, api_list) ==
    [st EXCEPT !.linking_count = IF what = "Linking" THEN @ + 1 ELSE @,
               !.reflection_count = IF what = "Reflection" THEN @ + 1 ELSE @,
               !.api_counts[api_list] = @ + 1,
               !.count = @ + 1]

\* The loops over method_locations_ and over field_locations_: `names` are
\* the keys still to visit, st and text the statistics and the stream so far.
RECURSIVE DumpLinking(_, _, _, _)
DumpLinking(names, locations, st, text) ==
    IF names = <<>> THEN [stats |-> st, text |-> text]
    ELSE LET name == Head(names) IN
        IF Reported(name) THEN
            LET api_list == GetApiList(name)
                st1 == CountFinding(st, "Linking", api_list)
            IN DumpLinking(Tail(names), locations, st1,
                   text \o <<HeaderLine(st1.count, "Linking", api_list, name)>>
                        \o DumpReferences(locations[name]) \o <<EmptyLine>>)
        ELSE DumpLinking(Tail(names), locations, st, text)

\* Mutant of ReflectionPairs: the loop over strings_ is the outer one.
ReflectionPairs_LiteralMajor ==
    LET cs == SortedKeys(classes_)
        ns == SortedKeys(strings_)
    IN [i \in 1..(Len(cs) * Len(ns)) |->
          [cls |-> cs[((i - 1) % Len(cs)) + 1],
           name |-> ns[((i - 1) \div Len(cs)) + 1]]]

\* The pairs the reflection loops visit, in their order: for each cls of
\* classes_, each name of strings_.
ReflectionPairs ==
    LET cs == SortedKeys(classes_)
        ns == SortedKeys(strings_)
    IN [i \in 1..(Len(cs) * Len(ns)) |->
          [cls |-> cs[((i - 1) \div Len(ns)) + 1],
           name |-> ns[((i - 1) % Len(ns)) + 1]]]

\* The loops over classes_ and strings_; `locations` is reflection_locations_,
\* which the lookup reflection_locations_[name] may extend.
RECURSIVE DumpReflection(_, _, _, _)
DumpReflection(pairs, locations, st, text) ==
    IF pairs = <<>> THEN [stats |-> st, text |-> text, locations |-> locations]
    ELSE LET cls == Head(pairs).cls
             name == Head(pairs).name
             full_name == FullName(cls, name)
         IN
        IF Reported(full_name) THEN
            LET api_list == GetApiList(full_name)
                st1 == CountFinding(st, "Reflection", api_list)
            IN DumpReflection(Tail(pairs), MapTouch(locations, name), st1,
                   text \o <<HeaderLine(st1.count, "Reflection", api_list, full_name)>>
                        \o DumpReferences(MapAt(locations, name)) \o <<EmptyLine>>)
        ELSE DumpReflection(Tail(pairs), locations, st, text)

\* HiddenApiFinder::Dump(os, stats, dump_reflection), called once Run returned.
\* dump_reflection is an option of the tool: every Dump of a run gets the same.
Dump(dump_reflection) ==
    /\ pc = "Done"
    /\ Len(os) < MaxDumps
    /\ \A i \in 1..Len(os) : os[i].dump_reflection = dump_reflection
    /\ LET methods == DumpLinking(SortedKeys(DOMAIN method_locations_),
                                  method_locations_, stats, <<>>)
           fields == DumpLinking(SortedKeys(DOMAIN field_locations_),
                                 field_locations_, methods.stats, methods.text)
           all == IF dump_reflection
                  THEN DumpReflection(ReflectionPairs, reflection_locations_,
                                      fields.stats, fields.text)
                  ELSE [stats |-> fields.stats, text |-> fields.text,
                        locations |-> reflection_locations_]
       IN /\ stats' = all.stats
          /\ reflection_locations_' = all.locations
          /\ os' = Append(os, [dump_reflection |-> dump_reflection,
                               count |-> stats.count, text |-> all.text])
    /\ UNCHANGED <<pc, scanner, method_locations_, field_locations_, classes_,
                   strings_>>

\* The caller replaces its HiddenApiStats by a newly constructed one.
NewStats ==
    /\ pc = "Done"
    /\ stats # ZeroStats
    /\ Len(os) < MaxDumps
    /\ stats' = ZeroStats
    /\ UNCHANGED <<pc, scanner, finder, os>>

-----------------------------------------------------------------------------

Init ==
    /\ pc = "Run"
    /\ dex_file = 0
    /\ method = NoMethod
    /\ max_pc = 0
    /\ dex_pc = 0
    /\ method_locations_ = EmptyMap
    /\ field_locations_ = EmptyMap
    /\ classes_ = {}
    /\ strings_ = {}
    /\ reflection_locations_ = EmptyMap
    /\ stats = ZeroStats
    /\ os = <<>>

Next ==
    \/ \E d \in DexFiles : CollectAccessesBegin(d)
    \/ \E d \in DexFiles : \E accessor \in GetClasses(d) :
          \E m \in accessor.methods : BeginMethod(accessor, m)
    \/ \E opcode \in Opcodes : \E index \in Operands(opcode) :
          NextInstruction(opcode, index)
    \/ EndMethod
    \/ CollectAccessesEnd
    \/ RunReturn
    \/ \E dump_reflection \in BOOLEAN : Dump(dump_reflection)
    \/ NewStats

Spec == Init /\ [][Next]_vars

-----------------------------------------------------------------------------
(* Reading a report back. *)

IsHeader(line) == line.kind = "header"

\* The header lines of a report, in the order they were written.
Headers(text) == SelectSeq(text, IsHeader)

\* The location lines written under the header at position i.
LocationLines(text, i) ==
    LET end == CHOOSE j \in (i + 1)..Len(text) :
                   /\ text[j].kind = "empty"
                   /\ \A k \in (i + 1)..(j - 1) : text[k].kind = "reference"
    IN SubSeq(text, i + 1, end - 1)

MethodNames == {MethodIds[i] : i \in 1..Len(MethodIds)}
FieldNames == {FieldIds[i] : i \in 1..Len(FieldIds)}

\* The pairs of classes_ x strings_ whose candidate name is full_name.
PairsOf(full_name) ==
    {p \in classes_ \X strings_ : FullName(p[1], p[2]) = full_name}

ClassOf(full_name) == (CHOOSE p \in PairsOf(full_name) : TRUE)[1]
LiteralOf(full_name) == (CHOOSE p \in PairsOf(full_name) : TRUE)[2]

\* The call sites recorded for the finding a header line announces.
RecordedReferences(header) ==
    IF header.what = "Reflection"
    THEN reflection_locations_[LiteralOf(header.name)]
    ELSE IF header.name \in DOMAIN method_locations_
    THEN method_locations_[header.name]
    ELSE field_locations_[header.name]

\* 1, 2, 3: the pass of Dump that writes a header line.
PassOf(header) ==
    IF header.what = "Reflection" THEN 3
    ELSE IF header.name \in MethodNames THEN 1 ELSE 2

StrLessEq(a, b) == a = b \/ StrLess(a, b)

Range(f) == {f[x] : x \in DOMAIN f}

HasChar(str, chars) == \E i \in 1..Len(str) : str[i] \in chars

\* The effect the reflection classification step (spec 4.1.1) has on the
\* members when the literal s is loaded in the method ref.
ClassifiedAs(s, ref) ==
    LET internal == ToInternalName(s) IN
    IF HasChar(s, {" "}) THEN UNCHANGED <<classes_, strings_, reflection_locations_>>
    ELSE IF IsInBoot(internal) THEN
        /\ classes_' = classes_ \cup {internal}
        /\ UNCHANGED <<strings_, reflection_locations_>>
    ELSE IF IsInBoot(s) THEN
        /\ classes_' = classes_ \cup {s}
        /\ UNCHANGED <<strings_, reflection_locations_>>
    ELSE
        /\ classes_' = classes_
        /\ strings_' = strings_ \cup {s}
        /\ DOMAIN reflection_locations_' = DOMAIN reflection_locations_ \cup {s}
        /\ \A k \in DOMAIN reflection_locations_' :
              reflection_locations_'[k] =
                 IF k = s
                 THEN (IF s \in DOMAIN reflection_locations_
                       THEN reflection_locations_[s] ELSE <<>>) \o <<ref>>
                 ELSE reflection_locations_[k]

-----------------------------------------------------------------------------
(* C1 *)

\* C1 (as stated): two Dump calls in succession on the same aggregated state,
\* with the same dump_reflection, write the same text, sequence numbers
\* included.
C1_DumpTwiceSameText ==
    \A i \in 1..(Len(os) - 1) :
        os[i].dump_reflection = os[i + 1].dump_reflection
            => os[i + 1].text = os[i].text

\* C1 (amended): two Dump calls in succession on the same aggregated state,
\* with the same dump_reflection and entered with the same stats->count,
\* write the same text.
C1_DumpTwiceSameTextFromSameCount ==
    \A i \in 1..(Len(os) - 1) :
        (/\ os[i].dump_reflection = os[i + 1].dump_reflection
         /\ os[i].count = os[i + 1].count)
            => os[i + 1].text = os[i].text

\* Two dumps entered with the same count that both wrote a reflection finding
\* with its locations.
C1_Witness ==
    /\ Len(os) = 2
    /\ os[1].count = os[2].count
    /\ \E i \in 2..Len(os[2].text) :
          /\ os[2].text[i].kind = "reference"
          /\ os[2].text[i - 1].what = "Reflection"

-----------------------------------------------------------------------------
(* C2 *)

\* The names of the reflection findings of a report.
ReflectionFindings(text) ==
    {text[i].name : i \in {j \in 1..Len(text) : text[j].what = "Reflection"}}

Candidates == {FullName(p[1], p[2]) : p \in classes_ \X strings_}

\* C2 (as stated): with reflection enabled, the reflection findings are
\* exactly the candidates that are known restricted, not attributed to the
\* application and report-eligible.
C2_ReflectionIffRestrictedNonAppEligible ==
    \A i \in 1..Len(os) :
        os[i].dump_reflection =>
            ReflectionFindings(os[i].text) =
                {c \in Candidates : /\ IsInBoot(c)
                                    /\ GetSignatureSource(c) # "APP"
                                    /\ ShouldReport(c)}

\* C2 (amended): with reflection enabled, the reflection findings are exactly
\* the candidates that are not attributed to the application and are
\* report-eligible; whether the candidate is known restricted is not asked.
C2_ReflectionIffNonAppEligible ==
    \A i \in 1..Len(os) :
        os[i].dump_reflection =>
            ReflectionFindings(os[i].text) =
                {c \in Candidates : /\ GetSignatureSource(c) # "APP"
                                    /\ ShouldReport(c)}

\* A reflection dump over candidates of which some are reported, one is the
\* application's and one is not eligible.
C2_Witness ==
    /\ Len(os) >= 1
    /\ os[1].dump_reflection
    /\ ReflectionFindings(os[1].text) # {}
    /\ \E c \in Candidates : GetSignatureSource(c) = "APP" /\ ShouldReport(c)
    /\ \E c \in Candidates : GetSignatureSource(c) # "APP" /\ ~ShouldReport(c)

-----------------------------------------------------------------------------
(* C3 *)

\* C3 (as stated): no string of strings_, and no key of
\* reflection_locations_, contains a whitespace character.
C3_NoWhitespaceInLiterals ==
    \A str \in strings_ \cup DOMAIN reflection_locations_ :
        ~HasChar(str, {" ", "\t"})

\* C3 (amended): no string of strings_, no key of reflection_locations_ and
\* no string of classes_ contains a space character ' '; other whitespace,
\* such as a tab, is not filtered.
C3_NoSpaceInLiterals ==
    \A str \in strings_ \cup DOMAIN reflection_locations_ \cup classes_ :
        ~HasChar(str, {" "})

\* A literal with a tab was scanned and recorded with its call site.
C3_Witness ==
    /\ <<"f", "\t", "g">> \in strings_
    /\ Len(reflection_locations_[<<"f", "\t", "g">>]) >= 1

-----------------------------------------------------------------------------
(* C4 *)

\* C4: a CONST_STRING inside the code whose literal has no space has exactly
\* one of three effects: the internal form joins classes_, or else the raw
\* literal joins classes_, or else the literal joins strings_ and the call
\* site is appended to reflection_locations_[literal]; in the first two cases
\* strings_ and reflection_locations_ stay as they are.
C4_ExactlyOneEffect ==
    [][\A index \in Operands("CONST_STRING") :
          (/\ NextInstruction("CONST_STRING", index)
           /\ dex_pc < max_pc
           /\ ~HasChar(GetStringView(index), {" "}))
          => /\ ClassifiedAs(GetStringView(index), method)
             /\ UNCHANGED <<method_locations_, field_locations_>>]_vars

\* The scan put a raw literal into classes_ and another literal, with its
\* call site, into strings_ and reflection_locations_.
C4_Witness ==
    /\ pc = "Instructions"
    /\ Lc \in classes_
    /\ <<"f">> \in strings_
    /\ Len(reflection_locations_[<<"f">>]) >= 1

-----------------------------------------------------------------------------
(* C5, C8 *)

\* C5: an instruction at or beyond max_pc ends the scan of the method and
\* changes nothing; every invoke, field access and string load below max_pc
\* is recorded, and the scan goes on.
C5_BelowBoundRecorded ==
    [][\A opcode \in Opcodes : \A index \in Operands(opcode) :
          NextInstruction(opcode, index) =>
             IF dex_pc >= max_pc
             THEN pc' = "CollectAccesses" /\ UNCHANGED finder
             ELSE /\ pc' = "Instructions"
                  /\ opcode \in MethodOps =>
                        method_locations_' =
                           PushBack(method_locations_, GetApiMethodName(index), method)
                  /\ opcode \in FieldOps =>
                        field_locations_' =
                           PushBack(field_locations_, GetApiFieldName(index), method)
                  /\ opcode \in StringLoadOps =>
                        ClassifiedAs(GetStringView(index), method)]_vars

\* C8: every load-literal-string instruction below max_pc, in the standard
\* and in the jumbo form, hands its string to the reflection classification
\* step.
C8_EveryStringLoadClassified ==
    [][\A opcode \in StringLoadOps : \A index \in Operands(opcode) :
          (NextInstruction(opcode, index) /\ dex_pc < max_pc)
             => ClassifiedAs(GetStringView(index), method)]_vars

\* The bound check alone: an instruction at or beyond max_pc ends the scan of
\* the method and changes no member; one below max_pc keeps the scan going.
BoundCheck ==
    [][\A opcode \in Opcodes : \A index \in Operands(opcode) :
          NextInstruction(opcode, index) =>
             IF dex_pc >= max_pc
             THEN pc' = "CollectAccesses" /\ UNCHANGED finder
             ELSE pc' = "Instructions"]_vars

-----------------------------------------------------------------------------
(* C6 *)

\* Number of the recorded references whose textual form is ref_string.
Occurrences(references, ref_string) ==
    Cardinality({j \in 1..Len(references) : RefString(references[j]) = ref_string})

\* C6: under every header line the location lines are in strictly ascending
\* order of their text, their texts are exactly the textual forms of the
\* call sites recorded for the finding, and a line carries the occurrence
\* suffix exactly when its form was recorded n > 1 times, with that n.
C6_LocationLines ==
    \A d \in 1..Len(os) : \A i \in 1..Len(os[d].text) :
        os[d].text[i].kind = "header" =>
            LET lines == LocationLines(os[d].text, i)
                references == RecordedReferences(os[d].text[i])
            IN /\ \A k \in 1..(Len(lines) - 1) :
                     StrLess(lines[k].name, lines[k + 1].name)
               /\ {lines[k].name : k \in 1..Len(lines)} =
                     {RefString(r) : r \in Range(references)}
               /\ \A k \in 1..Len(lines) :
                     LET n == Occurrences(references, lines[k].name)
                     IN lines[k].occurrences = IF n > 1 THEN n ELSE 0

\* A finding recorded from two units whose call sites print alike and from
\* a third call site that sorts before them although it was recorded last.
C6_Witness ==
    /\ Len(os) >= 1
    /\ \E i \in 1..Len(os[1].text) :
          /\ os[1].text[i].kind = "header"
          /\ LET lines == LocationLines(os[1].text, i)
                 references == RecordedReferences(os[1].text[i])
             IN /\ Len(lines) = 2
                /\ lines[1].occurrences = 0
                /\ lines[2].occurrences = 2
                /\ Len(references) = 3
                /\ references[1] # references[2]
                /\ RefString(references[1]) = lines[2].name
                /\ RefString(references[3]) = lines[1].name

-----------------------------------------------------------------------------
(* C7 *)

\* The header lines a pass of Dump wrote.
HeadersOfPass(text, pass) ==
    LET InPass(line) == IsHeader(line) /\ PassOf(line) = pass
    IN SelectSeq(text, InPass)

\* The findings of the method pass and of the field pass come in ascending
\* order of their name.
LinkingAscending(text) ==
    \A pass \in {1, 2} :
        LET h == HeadersOfPass(text, pass)
        IN \A k \in 1..(Len(h) - 1) : StrLess(h[k].name, h[k + 1].name)

\* C7 (as stated): the findings of the method pass and of the field pass come
\* in ascending order of their name, those of the reflection pass in
\* ascending order of their literal string.
C7_ReflectionAscendingByLiteral ==
    \A d \in 1..Len(os) :
        /\ LinkingAscending(os[d].text)
        /\ LET h == HeadersOfPass(os[d].text, 3)
           IN \A k \in 1..(Len(h) - 1) :
                 StrLessEq(LiteralOf(h[k].name), LiteralOf(h[k + 1].name))

\* C7 (amended): the findings of the method pass and of the field pass come
\* in ascending order of their name, those of the reflection pass in
\* ascending order of their class and, within one class, of their literal.
C7_ReflectionAscendingByClassThenLiteral ==
    \A d \in 1..Len(os) :
        /\ LinkingAscending(os[d].text)
        /\ LET h == HeadersOfPass(os[d].text, 3)
           IN \A k \in 1..(Len(h) - 1) :
                 \/ StrLess(ClassOf(h[k].name), ClassOf(h[k + 1].name))
                 \/ /\ ClassOf(h[k].name) = ClassOf(h[k + 1].name)
                    /\ StrLess(LiteralOf(h[k].name), LiteralOf(h[k + 1].name))

\* A report with two reflection findings of different classes, the second
\* with the smaller literal.
C7_Witness ==
    /\ Len(os) >= 1
    /\ LET h == HeadersOfPass(os[1].text, 3)
       IN /\ Len(h) = 2
          /\ StrLess(ClassOf(h[1].name), ClassOf(h[2].name))
          /\ StrLess(LiteralOf(h[2].name), LiteralOf(h[1].name))

\* A report with two findings of the method pass.
C7_WitnessLinking ==
    /\ Len(os) >= 1
    /\ Len(HeadersOfPass(os[1].text, 1)) = 2

-----------------------------------------------------------------------------
(* C9 *)

RECURSIVE SumOver(_, _)
SumOver(f, keys) ==
    IF keys = {} THEN 0
    ELSE LET k == CHOOSE x \in keys : TRUE
         IN f[k] + SumOver(f, keys \ {k})

\* C9: a Dump call numbers its findings consecutively from stats->count + 1,
\* in the order method pass, field pass, reflection pass; it adds the number
\* of its findings to count, that of its linking findings to linking_count,
\* that of its reflection findings to reflection_count, and to each bucket of
\* api_counts the number of findings of that list; started from zeroed
\* statistics, count = linking_count + reflection_count = the sum of
\* api_counts = the number of header lines.
C9_StatsCountFindings ==
    [][Len(os') = Len(os) + 1 =>
        LET h == Headers(os'[Len(os')].text)
            n == Len(h)
            Of(what) == Cardinality({k \in 1..n : h[k].what = what})
        IN /\ \A k \in 1..n : h[k].seq = stats.count + k
           /\ \A j \in 1..n : \A k \in j..n : PassOf(h[j]) <= PassOf(h[k])
           /\ stats'.count = stats.count + n
           /\ stats'.linking_count = stats.linking_count + Of("Linking")
           /\ stats'.reflection_count = stats.reflection_count + Of("Reflection")
           /\ \A l \in ApiLists :
                 stats'.api_counts[l] =
                    stats.api_counts[l]
                       + Cardinality({k \in 1..n : h[k].api_list = l})
           /\ stats = ZeroStats =>
                 /\ stats'.count = n
                 /\ stats'.count = stats'.linking_count + stats'.reflection_count
                 /\ stats'.count = SumOver(stats'.api_counts, ApiLists)]_vars

\* A dump from zeroed statistics that wrote a method, a field and a
\* reflection finding.
C9_Witness ==
    /\ Len(os) = 1
    /\ stats.count = 3
    /\ LET h == Headers(os[1].text)
       IN /\ Len(h) = 3
          /\ PassOf(h[1]) = 1
          /\ PassOf(h[2]) = 2
          /\ PassOf(h[3]) = 3

-----------------------------------------------------------------------------
(* C10 *)

\* C10: Dump changes none of method_locations_, field_locations_, classes_,
\* strings_ and reflection_locations_; the keys of reflection_locations_ are
\* the strings of strings_, each with at least one call site, so that the
\* lookup reflection_locations_[name] of Dump never inserts a key.
C10_DumpLeavesMembers ==
    [][/\ Len(os') = Len(os) + 1 => UNCHANGED finder
       /\ DOMAIN reflection_locations_' = strings_'
       /\ \A name \in strings_' : Len(reflection_locations_'[name]) >= 1]_vars

\* A reflection dump that looked up the locations of two literals.
C10_Witness ==
    /\ Len(os) >= 1
    /\ os[1].dump_reflection
    /\ Cardinality(ReflectionFindings(os[1].text)) = 2
    /\ Cardinality(strings_) = 2

====
